---- MODULE Spec2Model ----
(***************************************************************************)
(* Model of the snapshot store and the reconciliation / duplicate          *)
(* detection engine of 0_Dir_Analytics (scanner.py, database.py).          *)
(*                                                                         *)
(* The store is the SQLite table `files`: a sequence of rows whose index   *)
(* is the AUTOINCREMENT id (rows are never removed).  A nullable column    *)
(* holds NULL (the empty tuple) or <<v>>.  Time is a counter: an operation  *)
(* that reads datetime.now() gets the counter's value and advances it.     *)
(*                                                                         *)
(* The filesystem is an input of each operation: a walk draws what         *)
(* os.walk / os.stat report for each path under the walked directory, a    *)
(* hashing pass draws what os.path.exists / calculate_hash report for each *)
(* file it hashes.  The disk may change arbitrarily between operations.    *)
(* Paths of one directory are walked in ascending name order, a directory  *)
(* before its sub-directory (os.walk top-down).                            *)
(***************************************************************************)
EXTENDS Integers, Sequences, FiniteSets, TLC

\* ------------------------------------------------------------------ bounds
MaxTime == 3
WideTime == 2
FaultTime == 2
StatsTime == 2
RescanTime == 3

\* ---------------------------------------------------------------- constants
\* config.py sets 100; scaled so that a size group can exceed the cap with
\* the files of the model.
MAX_SAME_SIZE_FILES == 2
MIN_FILE_SIZE_FOR_HASH == 1

Sizes == {0, 1, 2}
Hashes == {"h1", "h2"}

NULL == <<>>

\* Two tracked directories, the second nested in the first.
DirA == <<"a">>
DirB == <<"a", "b">>
Roots == {DirA, DirB}

\* os.path.join(root, filename) for every file the model's disk can hold:
\* two files in each directory, in walk order.
AllPathsSeq ==
  << [dir |-> DirA, name |-> "f1"], [dir |-> DirA, name |-> "f2"],
     [dir |-> DirB, name |-> "g1"], [dir |-> DirB, name |-> "g2"] >>

Paths == {AllPathsSeq[i] : i \in DOMAIN AllPathsSeq}

IsPrefix(s, t) == Len(s) <= Len(t) /\ \A i \in 1..Len(s) : s[i] = t[i]

\* The files os.walk(directory) lists, in walk order.
WalkOrder(directory) ==
  SelectSeq(AllPathsSeq, LAMBDA p : IsPrefix(directory, p.dir))

PathsUnder(directory) ==
  {p \in Paths : IsPrefix(directory, p.dir)}

\* What the filesystem reports for one path during a walk: the file is not
\* listed, or it is listed and os.stat gives its size, or it is listed and
\* os.stat raises.
Absent == [kind |-> "absent"]
Unreadable == [kind |-> "unreadable"]
StatResults(S) == {Absent} \cup {[kind |-> "file", size |-> s] : s \in S}

\* The disks of the specifications below.  Spec: three files, one in the
\* outer directory and two in the nested one, empty or one byte long.
\* SpecWide: all four files, one or two bytes long, walked from the outer
\* directory.  SpecStats: the same four files, 500 or 1000 bytes long.
NarrowPaths == Paths \ {[dir |-> DirA, name |-> "f2"]}
NarrowSizes == {0, 1}
WideSizes == {1, 2}
KiloSizes == {500, 1000}

VARIABLES files, clock, result

vars == <<files, clock, result>>

\* ------------------------------------------------------------ small helpers
Ids(rows) == 1..Len(rows)

Max(S) == CHOOSE m \in S : \A x \in S : x <= m

RECURSIVE SortDesc(_)
SortDesc(S) ==
  IF S = {} THEN <<>>
  ELSE <<Max(S)>> \o SortDesc(S \ {Max(S)})

RECURSIVE Flatten(_)
Flatten(ss) ==
  IF ss = <<>> THEN <<>> ELSE Head(ss) \o Flatten(Tail(ss))

Range(s) == {s[i] : i \in DOMAIN s}

Orderings(S) ==
  {s \in [1..Cardinality(S) -> S] : \A i, j \in DOMAIN s : s[i] = s[j] => i = j}

\* --------------------------------------------------------------- scanner.py
\* get_file_metadata: the record built from os.stat, or None.
None == [none |-> TRUE]

\* Mutant: the OSError of os.stat is swallowed and an empty record is
\* returned for the file.
get_file_metadata_NeverNone(filepath, st) ==
  [full_path |-> filepath,
   file_size_bytes |-> IF st.kind = "file" THEN st.size ELSE 0,
   file_hash |-> NULL]

get_file_metadata(filepath, st) ==
  IF st.kind = "file"
  THEN [full_path |-> filepath,
        file_size_bytes |-> st.size,
        file_hash |-> NULL]
  ELSE None

\* Phase 1 of scan_directory: all_files and the error count.
CollectAll(directory, view) ==
  LET order == WalkOrder(directory)
      listed == SelectSeq(order, LAMBDA p : view[p].kind # "absent")
      good == SelectSeq(listed, LAMBDA p : get_file_metadata(p, view[p]) # None)
  IN [all_files |-> [i \in DOMAIN good |-> get_file_metadata(good[i], view[good[i]])],
      errors |-> Len(listed) - Len(good)]

\* SELECT full_path, is_deleted FROM files WHERE scan_root_directory = ?
ExistingPaths(rows, scan_root) ==
  {rows[i].full_path : i \in {j \in Ids(rows) : rows[j].scan_root_directory = scan_root}}

ExistingDeleted(rows, scan_root, path) ==
  LET i == CHOOSE j \in Ids(rows) :
             rows[j].scan_root_directory = scan_root /\ rows[j].full_path = path
  IN rows[i].is_deleted

\* Mutant: the snapshot query lacks `WHERE scan_root_directory = ?`, so a
\* path recorded for any scan root is classified as an update.
BuildBatch_AnyRoot(rows, all_files, scan_root) ==
  [i \in DOMAIN all_files |->
     IF \E j \in Ids(rows) : rows[j].full_path = all_files[i].full_path
     THEN [op_type |-> "update", metadata |-> all_files[i],
           was_deleted |-> (\E j \in Ids(rows) :
                              /\ rows[j].full_path = all_files[i].full_path
                              /\ rows[j].is_deleted = 1)]
     ELSE [op_type |-> "insert", metadata |-> all_files[i], was_deleted |-> FALSE]]

\* The (op_type, metadata, was_deleted) triples of bulk_sync_database.
BuildBatch(rows, all_files, scan_root) ==
  [i \in DOMAIN all_files |->
     IF all_files[i].full_path \in ExistingPaths(rows, scan_root)
     THEN [op_type |-> "update", metadata |-> all_files[i],
           was_deleted |-> (ExistingDeleted(rows, scan_root, all_files[i].full_path) = 1)]
     ELSE [op_type |-> "insert", metadata |-> all_files[i], was_deleted |-> FALSE]]

\* Mutant: the INSERT binds `now` to last_seen only; first_seen is 0.
InsertRow_FirstSeenZero(rows, metadata, scan_root, now) ==
  Append(rows,
    [full_path |-> metadata.full_path,
     scan_root_directory |-> scan_root,
     file_size_bytes |-> metadata.file_size_bytes,
     file_hash |-> metadata.file_hash,
     duplicate_group |-> NULL,
     hash_computed_at |-> NULL,
     is_deleted |-> 0,
     first_seen |-> 0,
     last_seen |-> now,
     deleted_at |-> NULL])

InsertRow(rows, metadata, scan_root, now) ==
  Append(rows,
    [full_path |-> metadata.full_path,
     scan_root_directory |-> scan_root,
     file_size_bytes |-> metadata.file_size_bytes,
     file_hash |-> metadata.file_hash,
     duplicate_group |-> NULL,
     hash_computed_at |-> NULL,
     is_deleted |-> 0,
     first_seen |-> now,
     last_seen |-> now,
     deleted_at |-> NULL])

\* Mutant: the UPDATE omits `deleted_at = NULL`.
UpdateRow_KeepsDeletedAt(rows, metadata, scan_root, now) ==
  [i \in DOMAIN rows |->
     IF rows[i].full_path = metadata.full_path
     THEN [rows[i] EXCEPT !.file_size_bytes = metadata.file_size_bytes,
                          !.scan_root_directory = scan_root,
                          !.is_deleted = 0,
                          !.last_seen = now]
     ELSE rows[i]]

\* Mutant: the UPDATE also writes file_hash from the fresh metadata.
UpdateRow_WritesHash(rows, metadata, scan_root, now) ==
  [i \in DOMAIN rows |->
     IF rows[i].full_path = metadata.full_path
     THEN [rows[i] EXCEPT !.file_size_bytes = metadata.file_size_bytes,
                          !.scan_root_directory = scan_root,
                          !.file_hash = metadata.file_hash,
                          !.is_deleted = 0,
                          !.last_seen = now,
                          !.deleted_at = NULL]
     ELSE rows[i]]

\* Mutant: the UPDATE also binds `now` to first_seen.
UpdateRow_ResetsFirstSeen(rows, metadata, scan_root, now) ==
  [i \in DOMAIN rows |->
     IF rows[i].full_path = metadata.full_path
     THEN [rows[i] EXCEPT !.file_size_bytes = metadata.file_size_bytes,
                          !.scan_root_directory = scan_root,
                          !.is_deleted = 0,
                          !.first_seen = now,
                          !.last_seen = now,
                          !.deleted_at = NULL]
     ELSE rows[i]]

UpdateRow(rows, metadata, scan_root, now) ==
  [i \in DOMAIN rows |->
     IF rows[i].full_path = metadata.full_path
     THEN [rows[i] EXCEPT !.file_size_bytes = metadata.file_size_bytes,
                          !.scan_root_directory = scan_root,
                          !.is_deleted = 0,
                          !.last_seen = now,
                          !.deleted_at = NULL]
     ELSE rows[i]]

\* Mutant: the table has no UNIQUE constraint on full_path.
UniqueViolation_Never(rows, path) == FALSE

\* full_path TEXT UNIQUE: the INSERT raises sqlite3.IntegrityError when any
\* row, of any scan root, already holds the path.
UniqueViolation(rows, path) ==
  \E i \in Ids(rows) : rows[i].full_path = path

ZeroStats == [inserted |-> 0, updated |-> 0, restored |-> 0, deleted |-> 0]

\* process_batch, from operation k on; tx is the open transaction's view.
RECURSIVE process_batch(_, _, _, _, _)
process_batch(tx, batch, k, scan_root, now) ==
  IF k > Len(batch) \/ tx.raised THEN tx
  ELSE LET op == batch[k] IN
    IF op.op_type = "insert"
    THEN IF UniqueViolation(tx.rows, op.metadata.full_path)
         THEN [tx EXCEPT !.raised = TRUE]
         ELSE process_batch(
                [tx EXCEPT !.rows = InsertRow(tx.rows, op.metadata, scan_root, now),
                           !.stats.inserted = @ + 1],
                batch, k + 1, scan_root, now)
    ELSE process_batch(
           [tx EXCEPT !.rows = UpdateRow(tx.rows, op.metadata, scan_root, now),
                      !.stats.restored = IF op.was_deleted THEN @ + 1 ELSE @,
                      !.stats.updated = IF op.was_deleted THEN @ ELSE @ + 1],
           batch, k + 1, scan_root, now)

\* Mutant: the soft-delete pass counts the missing paths but its UPDATE
\* matches no row.
MarkMissing_CountsOnly(tx, before, deleted_paths, scan_root, now) ==
  LET hit == {p \in deleted_paths : ExistingDeleted(before, scan_root, p) = 0}
  IN [tx EXCEPT !.stats.deleted = Cardinality(hit)]

\* Mutant: the soft-delete UPDATE sets is_deleted but not deleted_at.
MarkMissing_NoTimestamp(tx, before, deleted_paths, scan_root, now) ==
  LET hit == {p \in deleted_paths : ExistingDeleted(before, scan_root, p) = 0}
  IN [tx EXCEPT
       !.rows = [i \in DOMAIN tx.rows |->
                   IF tx.rows[i].full_path \in hit /\ tx.rows[i].is_deleted = 0
                   THEN [tx.rows[i] EXCEPT !.is_deleted = 1]
                   ELSE tx.rows[i]],
       !.stats.deleted = Cardinality(hit)]

\* Mutant: the pass lacks `if existing.get(path) == 0` and its UPDATE lacks
\* `AND is_deleted = 0`.
MarkMissing_AgainAndAgain(tx, before, deleted_paths, scan_root, now) ==
  [tx EXCEPT
     !.rows = [i \in DOMAIN tx.rows |->
                 IF tx.rows[i].full_path \in deleted_paths
                 THEN [tx.rows[i] EXCEPT !.is_deleted = 1, !.deleted_at = <<now>>]
                 ELSE tx.rows[i]],
     !.stats.deleted = Cardinality(deleted_paths)]

\* Mutant: the pass lacks `if existing.get(path) == 0`; the UPDATE keeps its
\* `AND is_deleted = 0`.
MarkMissing_CountsAll(tx, before, deleted_paths, scan_root, now) ==
  [tx EXCEPT
     !.rows = [i \in DOMAIN tx.rows |->
                 IF tx.rows[i].full_path \in deleted_paths /\ tx.rows[i].is_deleted = 0
                 THEN [tx.rows[i] EXCEPT !.is_deleted = 1, !.deleted_at = <<now>>]
                 ELSE tx.rows[i]],
     !.stats.deleted = Cardinality(deleted_paths)]

\* Mutant: the pass issues DELETE FROM files instead of the UPDATE.
MarkMissing_HardDeletes(tx, before, deleted_paths, scan_root, now) ==
  LET hit == {p \in deleted_paths : ExistingDeleted(before, scan_root, p) = 0}
  IN [tx EXCEPT
       !.rows = SelectSeq(tx.rows,
                  LAMBDA row : ~(row.full_path \in hit /\ row.is_deleted = 0)),
       !.stats.deleted = Cardinality(hit)]

\* The soft-delete pass of bulk_sync_database over deleted_paths.
MarkMissing(tx, before, deleted_paths, scan_root, now) ==
  LET hit == {p \in deleted_paths : ExistingDeleted(before, scan_root, p) = 0}
  IN [tx EXCEPT
       !.rows = [i \in DOMAIN tx.rows |->
                   IF tx.rows[i].full_path \in hit /\ tx.rows[i].is_deleted = 0
                   THEN [tx.rows[i] EXCEPT !.is_deleted = 1, !.deleted_at = <<now>>]
                   ELSE tx.rows[i]],
       !.stats.deleted = Cardinality(hit)]

\* Mutant: the connection is in autocommit mode, every statement is
\* persisted as it executes.
Persisted_Autocommit(before, tx, committed) == tx.rows

\* The rows on disk once the connection of bulk_sync_database is gone: the
\* statements run in one implicit transaction, which conn.commit() persists
\* and which is rolled back when the connection is dropped without it.
Persisted(before, tx, committed) ==
  IF committed THEN tx.rows ELSE before

\* The statements executed inside the open transaction.
Applied(stats) ==
  stats.inserted + stats.updated + stats.restored + stats.deleted

\* bulk_sync_database: one transaction, committed at the end; an exception
\* leaves the connection uncommitted, so the stored rows do not change.
bulk_sync_database(rows, all_files, scan_root, now) ==
  LET batch == BuildBatch(rows, all_files, scan_root)
      scanned_paths == {all_files[i].full_path : i \in DOMAIN all_files}
      tx1 == process_batch([rows |-> rows, stats |-> ZeroStats, raised |-> FALSE],
                           batch, 1, scan_root, now)
      deleted_paths == ExistingPaths(rows, scan_root) \ scanned_paths
      tx2 == MarkMissing(tx1, rows, deleted_paths, scan_root, now)
  IN IF tx1.raised
     THEN [rows |-> Persisted(rows, tx1, FALSE), stats |-> tx1.stats, raised |-> TRUE]
     ELSE [rows |-> Persisted(rows, tx2, TRUE), stats |-> tx2.stats, raised |-> FALSE]

\* bulk_sync_database stopped by an exception that is not the INSERT's own
\* (disk full, database locked, KeyboardInterrupt) after `cut` operations
\* of the batch and after the soft-delete marks of `marked`.
bulk_sync_interrupted(rows, all_files, scan_root, now, cut, marked) ==
  LET batch == BuildBatch(rows, all_files, scan_root)
      tx1 == process_batch([rows |-> rows, stats |-> ZeroStats, raised |-> FALSE],
                           SubSeq(batch, 1, cut), 1, scan_root, now)
      tx2 == MarkMissing(tx1, rows, marked, scan_root, now)
  IN [rows |-> Persisted(rows, tx2, FALSE), stats |-> tx2.stats,
      raised |-> tx1.raised]

Init ==
  /\ files = <<>>
  /\ clock = 1
  /\ result = [op |-> "none", at |-> 0]

\* The operation before this one was a completed walk of the same directory
\* and the filesystem reports now exactly what it reported then.
SameWalkAgain(directory, view) ==
  /\ result.op = "scan"
  /\ ~result.raised
  /\ result.root = directory
  /\ result.view = view

\* scan_directory(directory) on an existing directory.  When the sync raises,
\* the exception leaves scan_directory and no stats are returned.
ScanDirectory(directory, view) ==
  LET now == clock
      col == CollectAll(directory, view)
      out == bulk_sync_database(files, col.all_files, directory, now)
  IN /\ clock <= MaxTime
     /\ clock' = clock + 1
     /\ files' = out.rows
     /\ result' = IF out.raised
                  THEN [op |-> "scan", at |-> now, root |-> directory,
                        raised |-> TRUE, applied |-> Applied(out.stats),
                        repeated |-> SameWalkAgain(directory, view)]
                  ELSE [op |-> "scan", at |-> now, root |-> directory,
                        raised |-> FALSE,
                        view |-> view,
                        repeated |-> SameWalkAgain(directory, view),
                        observed |-> {col.all_files[i].full_path :
                                        i \in DOMAIN col.all_files},
                        scanned |-> Len(col.all_files),
                        errors |-> col.errors,
                        stats |-> out.stats]

\* scan_directory(directory) whose sync is stopped before its commit by a
\* storage error or a cancellation.
ScanInterrupted(directory, view) ==
  LET now == clock
      col == CollectAll(directory, view)
      scanned_paths == {col.all_files[i].full_path : i \in DOMAIN col.all_files}
      deleted_paths == ExistingPaths(files, directory) \ scanned_paths
  IN /\ clock <= MaxTime
     /\ clock' = clock + 1
     /\ \E cut \in 0..Len(col.all_files) :
          \E marked \in SUBSET deleted_paths :
            LET out == bulk_sync_interrupted(files, col.all_files, directory,
                                             now, cut, marked)
            IN /\ marked # {} => cut = Len(col.all_files)
               /\ ~out.raised
               /\ files' = out.rows
               /\ result' = [op |-> "scan", at |-> now, root |-> directory,
                             raised |-> TRUE, applied |-> Applied(out.stats),
                             repeated |-> SameWalkAgain(directory, view)]

\* Mutant: only os.path.exists is checked, not os.path.isdir.
ValidTarget_ExistsOnly(target) == target # "missing"

\* The validation of scan_directory: os.path.exists and os.path.isdir.
ValidTarget(target) == target = "dir"

Targets == {"missing", "file", "dir"}

\* scan_directory(directory) when the path is missing or is a regular file:
\* the error is printed and None is returned before init_db, the walk and
\* the sync.  (Past the validation, os.walk of a path that is not a
\* directory lists nothing and the sync runs with all_files = [].)
ScanInvalid(directory, target) ==
  LET walked == bulk_sync_database(files, <<>>, directory, clock)
  IN /\ target \in Targets \ {"dir"}
     /\ IF ValidTarget(target)
        THEN /\ files' = walked.rows
             /\ clock' = clock + 1
             /\ result' = [op |-> "scan_invalid", at |-> clock, root |-> directory,
                           target |-> target, returned |-> walked.stats]
        ELSE /\ files' = files
             /\ clock' = clock
             /\ result' = [op |-> "scan_invalid", at |-> clock, root |-> directory,
                           target |-> target, returned |-> None]

\* The view of a walk of `directory` on a disk that holds the files of P
\* only, as v reports them.
ViewOf(directory, v) ==
  [p \in PathsUnder(directory) |-> IF p \in DOMAIN v THEN v[p] ELSE Absent]

\* A walk in which every listed file can be read.
Scan(R, P, S) ==
  \E directory \in R :
    \E v \in [PathsUnder(directory) \cap P -> StatResults(S)] :
      ScanDirectory(directory, ViewOf(directory, v))

\* A walk in which os.stat fails for at least one listed file.
ScanWithErrors(R, P, S) ==
  \E directory \in R :
    \E v \in [PathsUnder(directory) \cap P -> StatResults(S) \cup {Unreadable}] :
      /\ \E p \in DOMAIN v : v[p] = Unreadable
      /\ ScanDirectory(directory, ViewOf(directory, v))

\* -------------------------------------------------------------- database.py
\* mark_deleted(paths_to_delete): UPDATE ... WHERE full_path = ? AND
\* is_deleted = 0, for each path; returns the summed rowcount.
mark_deleted(rows, paths_to_delete, now) ==
  LET hit == {i \in Ids(rows) :
                rows[i].full_path \in paths_to_delete /\ rows[i].is_deleted = 0}
  IN [rows |-> [i \in DOMAIN rows |->
                  IF i \in hit
                  THEN [rows[i] EXCEPT !.is_deleted = 1, !.deleted_at = <<now>>]
                  ELSE rows[i]],
      count |-> Cardinality(hit)]

\* Mutant: the HAVING clause lacks `COUNT(*) <= cap`.
CandidateSizes_NoCap(rows, scan_root) ==
  LET pool == {i \in Ids(rows) :
                 /\ rows[i].is_deleted = 0
                 /\ rows[i].file_size_bytes >= MIN_FILE_SIZE_FOR_HASH
                 /\ rows[i].scan_root_directory = scan_root}
      cnt(s) == Cardinality({i \in pool : rows[i].file_size_bytes = s})
  IN {s \in {rows[i].file_size_bytes : i \in pool} : cnt(s) > 1}

\* First query of get_size_candidates: the sizes whose population of
\* active rows of the scan root (size >= floor) is in 2..cap.
CandidateSizes(rows, scan_root) ==
  LET pool == {i \in Ids(rows) :
                 /\ rows[i].is_deleted = 0
                 /\ rows[i].file_size_bytes >= MIN_FILE_SIZE_FOR_HASH
                 /\ rows[i].scan_root_directory = scan_root}
      cnt(s) == Cardinality({i \in pool : rows[i].file_size_bytes = s})
  IN {s \in {rows[i].file_size_bytes : i \in pool} :
        cnt(s) > 1 /\ cnt(s) <= MAX_SAME_SIZE_FILES}

\* Mutant: the second query lacks `is_deleted = 0`.
SizeMembers_AnyState(rows, scan_root, size) ==
  SelectSeq([i \in Ids(rows) |-> i],
            LAMBDA i : /\ rows[i].file_size_bytes = size
                       /\ rows[i].scan_root_directory = scan_root)

\* Second query: the ids listed for one candidate size.
SizeMembers(rows, scan_root, size) ==
  SelectSeq([i \in Ids(rows) |-> i],
            LAMBDA i : /\ rows[i].is_deleted = 0
                       /\ rows[i].file_size_bytes = size
                       /\ rows[i].scan_root_directory = scan_root)

\* get_size_candidates, as the list the hashing loop iterates: sizes in
\* descending order, the members of each size in id order.
get_size_candidates(rows, scan_root) ==
  LET sizes == SortDesc(CandidateSizes(rows, scan_root))
  IN Flatten([k \in DOMAIN sizes |-> SizeMembers(rows, scan_root, sizes[k])])

\* Mutant: a file that cannot be hashed is given the hash "h1".
RECURSIVE HashLoop_Fabricates(_, _, _, _, _, _)
HashLoop_Fabricates(rows, cand, k, upto, hv, now) ==
  IF k > upto THEN rows
  ELSE LET id == cand[k] IN
    IF rows[id].file_hash # NULL
    THEN HashLoop_Fabricates(rows, cand, k + 1, upto, hv, now)
    ELSE HashLoop_Fabricates(
           [rows EXCEPT ![id].file_hash = IF hv[id] = NULL THEN <<"h1">> ELSE hv[id],
                        ![id].hash_computed_at = <<now>>],
           cand, k + 1, upto, hv, now)

\* Mutant: the loop stamps hash_computed_at before it tests existing_hash.
RECURSIVE HashLoop_StampsAll(_, _, _, _, _, _)
HashLoop_StampsAll(rows, cand, k, upto, hv, now) ==
  IF k > upto THEN rows
  ELSE LET id == cand[k] IN
    IF rows[id].file_hash # NULL
    THEN HashLoop_StampsAll([rows EXCEPT ![id].hash_computed_at = <<now>>],
                            cand, k + 1, upto, hv, now)
    ELSE IF hv[id] = NULL
    THEN HashLoop_StampsAll(rows, cand, k + 1, upto, hv, now)
    ELSE HashLoop_StampsAll([rows EXCEPT ![id].file_hash = hv[id],
                                         ![id].hash_computed_at = <<now>>],
                            cand, k + 1, upto, hv, now)

\* The hashing loop of compute_hashes_for_candidates over cand[k..upto];
\* hv[id] is what os.path.exists + calculate_hash give for the file: <<h>>,
\* or NULL when the file is gone or unreadable.
RECURSIVE HashLoop(_, _, _, _, _, _)
HashLoop(rows, cand, k, upto, hv, now) ==
  IF k > upto THEN rows
  ELSE LET id == cand[k] IN
    IF rows[id].file_hash # NULL \/ hv[id] = NULL
    THEN HashLoop(rows, cand, k + 1, upto, hv, now)
    ELSE HashLoop([rows EXCEPT ![id].file_hash = hv[id],
                               ![id].hash_computed_at = <<now>>],
                  cand, k + 1, upto, hv, now)

\* Mutant: HAVING COUNT(*) > 2.
DuplicateHashes_Triples(rows, scan_root) ==
  LET pool == {i \in Ids(rows) :
                 /\ rows[i].is_deleted = 0
                 /\ rows[i].file_hash # NULL
                 /\ rows[i].scan_root_directory = scan_root}
  IN {h \in {rows[i].file_hash : i \in pool} :
        Cardinality({i \in pool : rows[i].file_hash = h}) > 2}

\* SELECT file_hash ... GROUP BY file_hash HAVING COUNT(*) > 1
DuplicateHashes(rows, scan_root) ==
  LET pool == {i \in Ids(rows) :
                 /\ rows[i].is_deleted = 0
                 /\ rows[i].file_hash # NULL
                 /\ rows[i].scan_root_directory = scan_root}
  IN {h \in {rows[i].file_hash : i \in pool} :
        Cardinality({i \in pool : rows[i].file_hash = h}) > 1}

\* Mutant: the reset skips soft-deleted rows.
ResetGroups_ActiveOnly(rows, scan_root) ==
  [i \in DOMAIN rows |->
     IF rows[i].scan_root_directory = scan_root /\ rows[i].is_deleted = 0
     THEN [rows[i] EXCEPT !.duplicate_group = NULL]
     ELSE rows[i]]

\* Mutant: the reset has no WHERE clause.
ResetGroups_AnyRoot(rows, scan_root) ==
  [i \in DOMAIN rows |-> [rows[i] EXCEPT !.duplicate_group = NULL]]

\* UPDATE files SET duplicate_group = NULL WHERE scan_root_directory = ?
ResetGroups(rows, scan_root) ==
  [i \in DOMAIN rows |->
     IF rows[i].scan_root_directory = scan_root
     THEN [rows[i] EXCEPT !.duplicate_group = NULL]
     ELSE rows[i]]

\* Mutant: every group is written with the id 1.
AssignGroup_FirstId(rows, group_id, file_hash, scan_root) ==
  [i \in DOMAIN rows |->
     IF /\ rows[i].file_hash = file_hash
        /\ rows[i].is_deleted = 0
        /\ rows[i].scan_root_directory = scan_root
     THEN [rows[i] EXCEPT !.duplicate_group = <<1>>]
     ELSE rows[i]]

\* UPDATE files SET duplicate_group = ? WHERE file_hash = ? AND
\* is_deleted = 0 AND scan_root_directory = ?
AssignGroup(rows, group_id, file_hash, scan_root) ==
  [i \in DOMAIN rows |->
     IF /\ rows[i].file_hash = file_hash
        /\ rows[i].is_deleted = 0
        /\ rows[i].scan_root_directory = scan_root
     THEN [rows[i] EXCEPT !.duplicate_group = <<group_id>>]
     ELSE rows[i]]

RECURSIVE AssignAll(_, _, _, _)
AssignAll(rows, duplicate_hashes, k, scan_root) ==
  IF k > Len(duplicate_hashes) THEN rows
  ELSE AssignAll(AssignGroup(rows, k, duplicate_hashes[k], scan_root),
                 duplicate_hashes, k + 1, scan_root)

\* Mutant: an incremental regroup - no reset, only the hashes that still
\* have an ungrouped member are given a group and counted.
assign_duplicate_groups_Incremental(rows, scan_root, duplicate_hashes) ==
  LET fresh == SelectSeq(duplicate_hashes,
                 LAMBDA h : \E i \in Ids(rows) :
                              /\ rows[i].file_hash = h
                              /\ rows[i].is_deleted = 0
                              /\ rows[i].scan_root_directory = scan_root
                              /\ rows[i].duplicate_group = NULL)
  IN [rows |-> AssignAll(rows, fresh, 1, scan_root),
      groups |-> Len(fresh)]

\* assign_duplicate_groups; duplicate_hashes is the GROUP BY result in the
\* order the store returned it.
assign_duplicate_groups(rows, scan_root, duplicate_hashes) ==
  [rows |-> AssignAll(ResetGroups(rows, scan_root), duplicate_hashes, 1, scan_root),
   groups |-> Len(duplicate_hashes)]

\* The rows both queries of get_duplicate_group_stats select: WHERE
\* is_deleted = 0 AND duplicate_group IS NOT NULL AND scan_root_directory = ?
StatsPool(rows, scan_root) ==
  {i \in Ids(rows) : /\ rows[i].is_deleted = 0
                      /\ rows[i].duplicate_group # NULL
                      /\ rows[i].scan_root_directory = scan_root}

\* GROUP BY duplicate_group
GroupIds(rows, scan_root) ==
  {rows[i].duplicate_group[1] : i \in StatsPool(rows, scan_root)}

GroupMembers(rows, scan_root, g) ==
  {i \in StatsPool(rows, scan_root) : rows[i].duplicate_group = <<g>>}

\* file_size_bytes is a bare column of the aggregate query: SQLite takes it
\* from an arbitrary row of each group.
BarePicks(rows, scan_root) ==
  {pick \in [GroupIds(rows, scan_root) -> Ids(rows)] :
     \A g \in GroupIds(rows, scan_root) : pick[g] \in GroupMembers(rows, scan_root, g)}

\* Mutant: every copy of a group is counted as waste.
WastedOfGroup_AllCopies(rows, members, picked) ==
  Cardinality(members) * rows[picked].file_size_bytes

\* (COUNT(*) - 1) * file_size_bytes
WastedOfGroup(rows, members, picked) ==
  (Cardinality(members) - 1) * rows[picked].file_size_bytes

\* SELECT SUM(wasted) ... over the groups of G; `or 0` for no group.
RECURSIVE TotalWasted(_, _, _, _)
TotalWasted(rows, scan_root, pick, G) ==
  IF G = {} THEN 0
  ELSE LET g == CHOOSE x \in G : TRUE
       IN WastedOfGroup(rows, GroupMembers(rows, scan_root, g), pick[g])
            + TotalWasted(rows, scan_root, pick, G \ {g})

\* get_duplicate_group_stats: the dictionaries it can return.
get_duplicate_group_stats(rows, scan_root) ==
  {[duplicate_files |-> Cardinality(StatsPool(rows, scan_root)),
    duplicate_groups |-> Cardinality(GroupIds(rows, scan_root)),
    wasted_bytes |-> TotalWasted(rows, scan_root, pick, GroupIds(rows, scan_root))] :
     pick \in BarePicks(rows, scan_root)}

HashResults == {<<h>> : h \in Hashes} \cup {NULL}

NeedHash(rows, cand) ==
  {cand[k] : k \in {j \in DOMAIN cand : rows[cand[j]].file_hash = NULL}}

\* compute_hashes_for_candidates with no candidate: returns (0, 0).
DetectEmpty(scan_root) ==
  /\ get_size_candidates(files, scan_root) = <<>>
  /\ clock' = clock
  /\ files' = files
  /\ result' = [op |-> "detect", at |-> clock, root |-> scan_root,
                outcome |-> "empty", files_hashed |-> 0, groups |-> 0,
                written |-> {}]

\* compute_hashes_for_candidates run to its end: hash, commit, regroup,
\* commit.
DetectDone(scan_root) ==
  LET cand == get_size_candidates(files, scan_root) IN
  /\ cand # <<>>
  /\ clock <= MaxTime
  /\ \E hv \in [NeedHash(files, cand) -> HashResults] :
       LET hashed == HashLoop(files, cand, 1, Len(cand), hv, clock)
           written == {i \in Ids(files) : hashed[i].file_hash # files[i].file_hash}
       IN \E order \in Orderings(DuplicateHashes(hashed, scan_root)) :
            LET out == assign_duplicate_groups(hashed, scan_root, order) IN
            /\ files' = out.rows
            /\ result' = [op |-> "detect", at |-> clock, root |-> scan_root,
                          outcome |-> "done",
                          files_hashed |-> Cardinality(written),
                          groups |-> out.groups,
                          written |-> written,
                          failed |-> {id \in DOMAIN hv : hv[id] = NULL}]
  /\ clock' = clock + 1

\* compute_hashes_for_candidates stopped by an exception after `upto`
\* candidates: the commit after the loop is not reached and the connection
\* is dropped with its transaction open.
DetectInterrupted(scan_root) ==
  LET cand == get_size_candidates(files, scan_root) IN
  /\ cand # <<>>
  /\ clock <= MaxTime
  /\ \E upto \in 0..(Len(cand) - 1) :
       \E hv \in [NeedHash(files, cand) -> HashResults] :
         LET hashed == HashLoop(files, cand, 1, upto, hv, clock)
             written == {i \in Ids(files) : hashed[i].file_hash # files[i].file_hash}
         IN result' = [op |-> "detect", at |-> clock, root |-> scan_root,
                       outcome |-> "interrupted",
                       files_hashed |-> Cardinality(written),
                       groups |-> 0,
                       written |-> written]
  /\ files' = files
  /\ clock' = clock + 1

\* assign_duplicate_groups(None, scan_root) called on its own connection.
Regroup(scan_root) ==
  /\ clock' = clock
  /\ \E order \in Orderings(DuplicateHashes(files, scan_root)) :
       LET out == assign_duplicate_groups(files, scan_root, order) IN
       /\ files' = out.rows
       /\ result' = [op |-> "regroup", at |-> clock, root |-> scan_root,
                     groups |-> out.groups]

\* get_duplicate_group_stats(scan_root): reads only.
DuplicateStats(scan_root) ==
  /\ clock' = clock
  /\ files' = files
  /\ \E out \in get_duplicate_group_stats(files, scan_root) :
       result' = [op |-> "stats", at |-> clock, root |-> scan_root,
                  returned |-> out]

MarkDeleted(paths_to_delete) ==
  LET out == mark_deleted(files, paths_to_delete, clock) IN
  /\ clock <= MaxTime
  /\ clock' = clock + 1
  /\ files' = out.rows
  /\ result' = [op |-> "mark_deleted", at |-> clock, paths |-> paths_to_delete,
                count |-> out.count]

Detect ==
  \E scan_root \in Roots :
    \/ DetectEmpty(scan_root)
    \/ DetectDone(scan_root)
    \/ DetectInterrupted(scan_root)

Next ==
  \/ Scan(Roots, NarrowPaths, NarrowSizes)
  \/ Detect
  \/ \E scan_root \in Roots : Regroup(scan_root)
  \/ \E paths_to_delete \in (SUBSET NarrowPaths) \ {{}} : MarkDeleted(paths_to_delete)

Spec == Init /\ [][Next]_vars

\* The wider disk: the outer directory alone is tracked and holds four
\* files of one or two bytes, so that two size groups and two duplicate
\* groups can exist at once.
NextWide ==
  \/ clock <= WideTime /\ Scan({DirA}, Paths, WideSizes)
  \/ clock <= WideTime /\ DetectDone(DirA)
  \/ DetectEmpty(DirA)
  \/ Regroup(DirA)

SpecWide == Init /\ [][NextWide]_vars

\* Walks, duplicate detection and the duplicate statistics on the outer
\* directory with files of 500 and 1000 bytes.
NextStats ==
  \/ clock <= StatsTime /\ Scan({DirA}, Paths, KiloSizes)
  \/ clock <= StatsTime /\ DetectDone(DirA)
  \/ DuplicateStats(DirA)

SpecStats == Init /\ [][NextStats]_vars

\* Three files of 500 and 1000 bytes under the outer directory, with time
\* for a walk, a detection run and a second walk: the store after a file
\* was removed or rewritten on disk, its detection runs and statistics.
NextRescan ==
  \/ clock <= RescanTime /\ Scan({DirA}, NarrowPaths, KiloSizes)
  \/ clock <= RescanTime /\ DetectDone(DirA)
  \/ DetectEmpty(DirA)
  \/ Regroup(DirA)
  \/ DuplicateStats(DirA)

SpecRescan == Init /\ [][NextRescan]_vars

\* The faulty environment: walks whose target is invalid, walks in which
\* os.stat fails for some files, and walks stopped before their commit.
NextFaults ==
  \/ clock <= FaultTime /\ Scan(Roots, NarrowPaths, NarrowSizes)
  \/ clock <= FaultTime /\ ScanWithErrors(Roots, NarrowPaths, NarrowSizes)
  \/ clock <= FaultTime /\
       \E directory \in Roots :
         \E v \in [PathsUnder(directory) \cap NarrowPaths -> StatResults(NarrowSizes)] :
           ScanInterrupted(directory, ViewOf(directory, v))
  \/ \E directory \in Roots, target \in Targets \ {"dir"} :
       ScanInvalid(directory, target)

SpecFaults == Init /\ [][NextFaults]_vars

\* ================================================================ claims
\* A step is a completed walk (scan_directory returned its stats).
WalkCommitted == result'.op = "scan" /\ ~result'.raised /\ result'.at = clock

ActiveIn(rows, scan_root) ==
  {i \in Ids(rows) : rows[i].scan_root_directory = scan_root /\ rows[i].is_deleted = 0}

DeletedIn(rows, scan_root) ==
  {i \in Ids(rows) : rows[i].scan_root_directory = scan_root /\ rows[i].is_deleted = 1}

\* C1 - Partition completeness: in every walk that commits, each row that
\* was Active in the walked scan root before the walk is afterwards either
\* observed and still Active, or unobserved and soft-deleted with
\* deleted_at = the walk's timestamp; the reported `deleted` count is the
\* number of Active -> SoftDeleted transitions of the step.
C1_PartitionCompleteness ==
  [][WalkCommitted =>
       /\ \A i \in ActiveIn(files, result'.root) :
            \/ /\ files[i].full_path \in result'.observed
               /\ files'[i].is_deleted = 0
            \/ /\ files[i].full_path \notin result'.observed
               /\ files'[i].is_deleted = 1
               /\ files'[i].deleted_at = <<result'.at>>
       /\ result'.stats.deleted =
            Cardinality({i \in Ids(files) :
                           files[i].is_deleted = 0 /\ files'[i].is_deleted = 1})
  ]_vars

\* A walk has soft-deleted one row of its scan root and kept another Active.
C1_Witness ==
  /\ result.op = "scan" /\ ~result.raised
  /\ result.stats.deleted >= 1
  /\ result.stats.updated >= 1
  /\ \E i \in DeletedIn(files, result.root) : files[i].deleted_at = <<result.at>>

RegroupedFor(scan_root) ==
  /\ result.op = "regroup" \/ (result.op = "detect" /\ result.outcome = "done")
  /\ result.root = scan_root

SharesHash(rows, i, j) ==
  rows[i].file_hash # NULL /\ rows[i].file_hash = rows[j].file_hash

SharesGroup(rows, i, j) ==
  rows[i].duplicate_group # NULL /\ rows[i].duplicate_group = rows[j].duplicate_group

\* C4 - Grouping correctness: right after assign_duplicate_groups for a scan
\* root, two Active rows of it share a non-null duplicate_group iff they
\* share a non-null file_hash (so distinct shared hashes get distinct
\* ids), and an Active row whose hash no other Active row of the scope holds
\* has no duplicate_group.
C4_GroupingCorrectness ==
  \A r \in Roots :
    RegroupedFor(r) =>
      LET act == ActiveIn(files, r) IN
      /\ \A i, j \in act :
           i # j => (SharesGroup(files, i, j) <=> SharesHash(files, i, j))
      /\ \A i \in act :
           (files[i].file_hash # NULL
              /\ ~\E j \in act \ {i} : SharesHash(files, i, j))
             => files[i].duplicate_group = NULL

\* A regroup has formed two duplicate groups in one scan root.
C4_Witness ==
  \E r \in Roots :
    /\ RegroupedFor(r)
    /\ \E i, j, k, l \in ActiveIn(files, r) :
         /\ i # j /\ k # l
         /\ SharesGroup(files, i, j) /\ SharesGroup(files, k, l)
         /\ files[i].duplicate_group # files[k].duplicate_group
         /\ files[i].file_hash # files[k].file_hash

\* A row that carries a duplicate_group is Active and shares its hash with
\* another Active row of its scan root.
GroupJustified(rows, i) ==
  rows[i].duplicate_group # NULL =>
    /\ rows[i].is_deleted = 0
    /\ rows[i].file_hash # NULL
    /\ \E j \in ActiveIn(rows, rows[i].scan_root_directory) \ {i} :
         rows[j].file_hash = rows[i].file_hash

\* C5 - Every duplicate detection run that returns has done the
\* reset-and-regroup step, also with no candidate at all: after it, no
\* Active row of the scan root carries a duplicate_group unless it shares
\* its hash with another Active row (a group shrunk to one member is gone).
C5_RegroupOnEveryRun ==
  (result.op = "detect" /\ result.outcome \in {"done", "empty"}) =>
    \A i \in ActiveIn(files, result.root) : GroupJustified(files, i)

\* C6 (as claimed) - in every reachable store state, every row with a
\* duplicate_group is Active, hashed, and shares its hash with another
\* Active row of its scan root.
C6_GroupAlwaysJustified ==
  \A i \in Ids(files) : GroupJustified(files, i)

\* C6 (amended) - right after assign_duplicate_groups for a scan root, every
\* row of that scan root with a duplicate_group is Active, hashed, and
\* shares its hash with another Active row of the scan root.
C6_GroupJustifiedAfterRegroup ==
  \A r \in Roots :
    RegroupedFor(r) =>
      \A i \in Ids(files) :
        files[i].scan_root_directory = r => GroupJustified(files, i)

\* A regroup has left a group in a scan root that also holds a soft-deleted
\* row.
C6_Witness ==
  \E r \in Roots :
    /\ RegroupedFor(r)
    /\ \E i \in ActiveIn(files, r) : files[i].duplicate_group # NULL
    /\ DeletedIn(files, r) # {}

\* C7 - In every reachable store state, for every row: is_deleted = 1 iff
\* deleted_at is set, and is_deleted = 0 iff deleted_at is NULL.
C7_DeletedFlagMatchesTimestamp ==
  \A i \in Ids(files) :
    /\ files[i].is_deleted \in {0, 1}
    /\ files[i].is_deleted = 1 <=> files[i].deleted_at # NULL
    /\ files[i].is_deleted = 0 <=> files[i].deleted_at = NULL

\* A walk has restored one row (deleted_at cleared) while another row is
\* soft-deleted (deleted_at set).
C7_Witness ==
  /\ result.op = "scan" /\ ~result.raised /\ result.stats.restored >= 1
  /\ \E i \in Ids(files) : files[i].is_deleted = 1 /\ files[i].deleted_at # NULL
  /\ \E i \in Ids(files) : files[i].is_deleted = 0 /\ files[i].last_seen = result.at
                             /\ files[i].first_seen < files[i].last_seen

UniqueRows(rows) ==
  \A i, j \in Ids(rows) :
    (rows[i].full_path = rows[j].full_path
       /\ rows[i].scan_root_directory = rows[j].scan_root_directory) => i = j

RowsOf(rows, scan_root) ==
  {i \in Ids(rows) : rows[i].scan_root_directory = scan_root}

\* C8 - There is at most one row per (full_path, scan_root) in every
\* reachable store state; a walk that commits updates in place the row of
\* every observed path already recorded for its scan root, and the number
\* of rows of the scan root grows by exactly the number of observed paths
\* that had no row in it; a walk that raises leaves the table as it was.
C8_OneRowPerPath ==
  [][/\ UniqueRows(files')
     /\ (result'.op = "scan" /\ result'.at = clock /\ result'.raised)
          => files' = files
     /\ WalkCommitted =>
          /\ \A i \in RowsOf(files, result'.root) :
               /\ files'[i].full_path = files[i].full_path
               /\ files'[i].scan_root_directory = result'.root
               /\ files[i].full_path \in result'.observed
                    => files'[i].last_seen = result'.at
          /\ Cardinality(RowsOf(files', result'.root))
               - Cardinality(RowsOf(files, result'.root))
             = Cardinality(result'.observed \ ExistingPaths(files, result'.root))
  ]_vars

\* A walk has observed one path already recorded (soft-deleted) and one
\* unknown path of its scan root.
C8_Witness ==
  /\ result.op = "scan" /\ ~result.raised
  /\ result.stats.restored >= 1
  /\ result.stats.inserted >= 1
  /\ Cardinality(RowsOf(files, result.root)) >= 2

OverCap(rows, scan_root, size) ==
  Cardinality({i \in ActiveIn(rows, scan_root) : rows[i].file_size_bytes = size})
    > MAX_SAME_SIZE_FILES

\* C9 - Cap enforcement: in every duplicate detection run, a size shared by
\* more Active rows of the scan root than MAX_SAME_SIZE_FILES is not a
\* candidate size: none of its rows is passed to the hasher and none of
\* them gains a hash in the run.
C9_CapEnforcement ==
  [][result'.op = "detect" =>
       \A s \in Sizes :
         OverCap(files, result'.root, s) =>
           \A i \in ActiveIn(files, result'.root) :
             files[i].file_size_bytes = s =>
               /\ i \notin Range(get_size_candidates(files, result'.root))
               /\ i \notin result'.written
               /\ files'[i].file_hash = files[i].file_hash
  ]_vars

\* A detection run has ended on a scan root in which three unhashed Active
\* rows share one hashable size.
C9_Witness ==
  /\ result.op = "detect"
  /\ \E s \in Sizes :
       /\ s >= MIN_FILE_SIZE_FOR_HASH
       /\ OverCap(files, result.root, s)
       /\ \A i \in ActiveIn(files, result.root) :
            files[i].file_size_bytes = s => files[i].file_hash = NULL

\* C10 - Hashing is committed per file: after a duplicate detection run
\* that was interrupted inside the candidate loop, the hashes it had
\* written are in the store.
C10_PartialHashesPersist ==
  (result.op = "detect" /\ result.outcome = "interrupted") =>
    \A i \in result.written : files[i].file_hash # NULL

\* A step is a walk whose sync raised (the INSERT's IntegrityError, a
\* storage error or a cancellation) before its commit.
WalkRaised == result'.op = "scan" /\ result'.raised /\ result'.at = clock

\* C11 - Batch atomicity: a walk whose sync is stopped by an error while it
\* applies its inserts, updates, restores or soft-delete marks persists
\* none of them and leaves the committed table exactly as it was before the
\* walk; a table changed by a walk holds the whole batch (every observed
\* path has its row written at the walk's timestamp, every other row of the
\* scan root is soft-deleted).
C11_BatchAtomicity ==
  [][/\ WalkRaised => files' = files
     /\ (result'.op = "scan" /\ result'.at = clock /\ files' # files) =>
          /\ ~result'.raised
          /\ \A p \in result'.observed :
               \E i \in ActiveIn(files', result'.root) :
                 files'[i].full_path = p /\ files'[i].last_seen = result'.at
          /\ \A i \in RowsOf(files', result'.root) :
               files'[i].full_path \notin result'.observed
                 => files'[i].is_deleted = 1
  ]_vars

\* A walk was stopped after at least two statements of its transaction,
\* on a table that held committed rows of its scan root.
C11_Witness ==
  /\ result.op = "scan" /\ result.raised
  /\ result.applied >= 2
  /\ RowsOf(files, result.root) # {}

\* The table as it would be if only scan_root had ever been scanned.
OnlyRoot(rows, scan_root) ==
  SelectSeq(rows, LAMBDA row : row.scan_root_directory = scan_root)

RecordsOf(rows, scan_root) ==
  {rows[i] : i \in RowsOf(rows, scan_root)}

\* The walks of one directory on the disk of Spec.
Views(directory) ==
  {ViewOf(directory, v) :
     v \in [PathsUnder(directory) \cap NarrowPaths -> StatResults(NarrowSizes)]}

\* C12 - Scan roots are independent: in every reachable store state, a walk
\* of any scan root, whatever it observes, has the same outcome (raises or
\* not, the same inserted / updated / restored / deleted counts, the same
\* resulting records of the root) as the same walk on a table that holds
\* the records of that root only - also when one root's directory is nested
\* in the other's.
C12_RootIndependence ==
  \A directory \in Roots :
    \A view \in Views(directory) :
      LET all_files == CollectAll(directory, view).all_files
          shared == bulk_sync_database(files, all_files, directory, clock)
          alone == bulk_sync_database(OnlyRoot(files, directory), all_files,
                                      directory, clock)
      IN /\ shared.raised = alone.raised
         /\ shared.stats = alone.stats
         /\ RecordsOf(shared.rows, directory) = RecordsOf(alone.rows, directory)

\* The paths get_size_candidates hands to the hashing loop, in order.
CandidatePaths(rows, scan_root) ==
  LET cand == get_size_candidates(rows, scan_root)
  IN [k \in DOMAIN cand |-> rows[cand[k]].full_path]

\* C13 - No cross-root leakage: a walk, a duplicate detection run or a
\* regroup executed for one scan root leaves every row of every other scan
\* root unchanged in every field; and in every reachable store state the
\* candidates selected and the duplicate statistics computed for a scan
\* root are those of a table holding that root's rows only.
C13_NoCrossRootLeakage ==
  /\ [][result'.op \in {"scan", "detect", "regroup"} =>
          \A i \in Ids(files) :
            files[i].scan_root_directory # result'.root =>
              i \in Ids(files') /\ files'[i] = files[i]
       ]_vars
  /\ [](\A r \in Roots :
          /\ Range(get_size_candidates(files, r)) \subseteq RowsOf(files, r)
          /\ CandidatePaths(files, r) = CandidatePaths(OnlyRoot(files, r), r)
          /\ get_duplicate_group_stats(files, r)
               = get_duplicate_group_stats(OnlyRoot(files, r), r))

\* A regroup has run for a scan root that holds rows while the other scan
\* root holds a duplicate group.
C13_Witness ==
  /\ result.op = "regroup"
  /\ RowsOf(files, result.root) # {}
  /\ \E i \in Ids(files) :
       /\ files[i].scan_root_directory # result.root
       /\ files[i].duplicate_group # NULL
       /\ files[i].file_hash # NULL

\* C14 - Reconciliation idempotence: a walk that directly follows a
\* completed walk of the same scan root and finds the directory unchanged
\* completes, reports zero inserted, zero restored and zero soft-deleted,
\* and changes no field of any row except last_seen of the observed rows:
\* the Active / SoftDeleted partition, the sizes, first_seen, deleted_at,
\* hashes and groups are as before (its `updated` count is the number of
\* re-observed paths, none of which changed content).
C14_ReconcileIdempotence ==
  [][(result'.op = "scan" /\ result'.at = clock /\ result'.repeated) =>
       /\ ~result'.raised
       /\ result'.stats.inserted = 0
       /\ result'.stats.restored = 0
       /\ result'.stats.deleted = 0
       /\ result'.stats.updated = Cardinality(result'.observed)
       /\ Len(files') = Len(files)
       /\ \A i \in Ids(files) :
            files'[i] = [files[i] EXCEPT !.last_seen =
                           IF files[i].full_path \in result'.observed
                                /\ files[i].scan_root_directory = result'.root
                           THEN result'.at ELSE @]
  ]_vars

\* A walk has been repeated on an unchanged directory whose scan root
\* holds a re-observed Active row and a soft-deleted row.
C14_Witness ==
  /\ result.op = "scan" /\ ~result.raised /\ result.repeated
  /\ result.stats.updated >= 1
  /\ DeletedIn(files, result.root) # {}
  /\ \E i \in ActiveIn(files, result.root) :
       files[i].last_seen = result.at /\ files[i].first_seen < result.at

\* C15 - Regroup idempotence: assign_duplicate_groups run for a scan root
\* directly after assign_duplicate_groups for the same scan root returns the
\* same group count and leaves the same membership: the same rows carry a
\* group, two rows share a group after it iff they shared one before it
\* (the ids themselves may differ), and no other field changes.
C15_RegroupIdempotence ==
  [][(result'.op = "regroup" /\ RegroupedFor(result'.root)) =>
       /\ result'.groups = result.groups
       /\ Len(files') = Len(files)
       /\ \A i \in Ids(files) :
            /\ (files'[i].duplicate_group = NULL) <=> (files[i].duplicate_group = NULL)
            /\ [files'[i] EXCEPT !.duplicate_group = NULL]
                 = [files[i] EXCEPT !.duplicate_group = NULL]
       /\ \A i, j \in Ids(files) :
            SharesGroup(files', i, j) <=> SharesGroup(files, i, j)
  ]_vars

\* A regroup has run with the store as the regroup of the last detection
\* run left it (no walk and no hashing since: the clock has not moved), and
\* has swapped the ids of the two duplicate groups.
C15_Witness ==
  /\ result.op = "regroup" /\ result.at = clock
  /\ result.groups = 2
  /\ \E i, j \in ActiveIn(files, result.root) :
       /\ i < j
       /\ files[i].duplicate_group = <<2>>
       /\ files[j].duplicate_group = <<1>>
       /\ files[i].hash_computed_at = <<clock - 1>>
       /\ files[j].hash_computed_at = <<clock - 1>>

\* C16 - Invalid target: scan_directory called on a path that does not
\* exist or is not a directory returns None (it does not raise) and writes
\* nothing: the table is exactly as before, for every scan root.
C16_InvalidTarget ==
  [][result'.op = "scan_invalid" =>
       /\ result'.returned = None
       /\ files' = files
       /\ clock' = clock
  ]_vars

\* scan_directory has been called on a scan root that holds Active rows and
\* whose path is now a regular file.
C16_Witness ==
  /\ result.op = "scan_invalid"
  /\ result.target = "file"
  /\ ActiveIn(files, result.root) # {}

\* The files of a view for which os.stat raises, and those it succeeds for.
Failing(view) == {p \in DOMAIN view : view[p] = Unreadable}

Readable(view) == {p \in DOMAIN view : view[p].kind = "file"}

\* The walks of one directory in which os.stat may fail.
ViewsWithErrors(directory) ==
  {ViewOf(directory, v) :
     v \in [PathsUnder(directory) \cap NarrowPaths ->
              StatResults(NarrowSizes) \cup {Unreadable}]}

\* C17 - Extraction failure: a walk in which get_file_metadata fails for
\* some files goes on with the others; it hands to the sync exactly what a
\* walk that does not list the failing files would hand over, and its error
\* count is the number of failing files (one per file).  When the walk
\* commits, no row is created for a failing path, and every readable
\* observed file has its Active row in the scan root with the observed size,
\* written at the walk's timestamp - inserted if the path was unknown,
\* updated in place otherwise.
C17_ExtractionFailure ==
  /\ [](\A directory \in Roots :
          \A view \in ViewsWithErrors(directory) :
            LET without == [p \in DOMAIN view |->
                              IF p \in Failing(view) THEN Absent ELSE view[p]]
            IN /\ CollectAll(directory, view).all_files
                    = CollectAll(directory, without).all_files
               /\ CollectAll(directory, view).errors = Cardinality(Failing(view)))
  /\ [][WalkCommitted =>
          /\ result'.errors = Cardinality(Failing(result'.view))
          /\ result'.observed = Readable(result'.view)
          /\ result'.scanned = Cardinality(Readable(result'.view))
          /\ \A p \in Failing(result'.view) :
               \A i \in Ids(files') \ Ids(files) : files'[i].full_path # p
          /\ \A p \in Readable(result'.view) :
               \E i \in ActiveIn(files', result'.root) :
                 /\ files'[i].full_path = p
                 /\ files'[i].file_size_bytes = result'.view[p].size
                 /\ files'[i].last_seen = result'.at
                 /\ (i \in Ids(files)) <=> (p \in ExistingPaths(files, result'.root))
          /\ result'.stats.inserted + result'.stats.updated + result'.stats.restored
               = Cardinality(Readable(result'.view))
       ]_vars

\* A walk has counted one failing file that had no row, inserted another
\* file and updated a third.
C17_Witness ==
  /\ result.op = "scan" /\ ~result.raised
  /\ result.errors = 1
  /\ result.stats.inserted = 1
  /\ result.stats.updated = 1
  /\ \E p \in Failing(result.view) : p \notin ExistingPaths(files, result.root)

\* A step is a duplicate detection run that went through the hashing loop
\* and the regroup.
DetectCompleted == result'.op = "detect" /\ result'.outcome = "done"

\* C18 - Hash failure: in a duplicate detection run that completes, a
\* candidate whose hashing fails (file gone or unreadable) keeps
\* file_hash = NULL and hash_computed_at = NULL and is not counted in
\* files_hashed, while every other candidate that lacked a hash gets the
\* hash computed for it, stamped with the run's time - whatever happened to
\* it in earlier runs, so a candidate that failed before is hashed by the
\* later run that can read it.
C18_HashFailure ==
  [][DetectCompleted =>
       LET cand == get_size_candidates(files, result'.root)
           need == NeedHash(files, cand)
       IN /\ result'.failed \subseteq need
          /\ \A id \in result'.failed :
               /\ files'[id].file_hash = NULL
               /\ files'[id].hash_computed_at = NULL
          /\ \A id \in need \ result'.failed :
               /\ files'[id].file_hash # NULL
               /\ files'[id].hash_computed_at = <<result'.at>>
          /\ result'.files_hashed = Cardinality(need \ result'.failed)
          /\ result'.written = need \ result'.failed
  ]_vars

\* Two files of one size were inserted by the walk at time 1; the detection
\* run at time 2 hashed one and failed on the other; the run at time 3
\* has hashed the other.
C18_Witness ==
  /\ result.op = "detect" /\ result.outcome = "done" /\ result.at = 3
  /\ result.files_hashed = 1
  /\ \E i, j \in ActiveIn(files, result.root) :
       /\ i # j
       /\ files[i].first_seen = 1 /\ files[j].first_seen = 1
       /\ files[i].last_seen = 1 /\ files[j].last_seen = 1
       /\ files[j].hash_computed_at = <<2>>
       /\ files[i].hash_computed_at = <<3>>
       /\ i \in result.written

\* The duplicate groups of a scan root: the group ids its Active rows carry,
\* the Active members of a group and their recorded sizes.
GroupsOf(rows, scan_root) ==
  {rows[i].duplicate_group[1] :
     i \in {j \in ActiveIn(rows, scan_root) : rows[j].duplicate_group # NULL}}

MembersOf(rows, scan_root, g) ==
  {i \in ActiveIn(rows, scan_root) : rows[i].duplicate_group = <<g>>}

MemberSizes(rows, scan_root, g) ==
  {rows[i].file_size_bytes : i \in MembersOf(rows, scan_root, g)}

\* The sums of (k - 1) x s over the groups of G, s a size recorded for a
\* member of the group: one value when the members of every group have the
\* same size.
RECURSIVE WastedSums(_, _, _)
WastedSums(rows, scan_root, G) ==
  IF G = {} THEN {0}
  ELSE LET g == CHOOSE x \in G : TRUE
           k == Cardinality(MembersOf(rows, scan_root, g))
       IN {(k - 1) * sz + w : sz \in MemberSizes(rows, scan_root, g),
                              w \in WastedSums(rows, scan_root, G \ {g})}

\* C19 - Wasted-space metric: the wasted_bytes get_duplicate_group_stats
\* returns for a scan root is the sum over the root's duplicate groups of
\* (k - 1) x s, k the number of Active members of the group and s the byte
\* size of its members (the size of one member, where the recorded sizes of
\* a group differ); with no group it is 0; duplicate_groups and
\* duplicate_files are the numbers of groups and of grouped Active rows.
C19_WastedBytes ==
  result.op = "stats" =>
    LET G == GroupsOf(files, result.root) IN
    /\ result.returned.wasted_bytes \in WastedSums(files, result.root, G)
    /\ G = {} => result.returned.wasted_bytes = 0
    /\ result.returned.duplicate_groups = Cardinality(G)
    /\ result.returned.duplicate_files
         = Cardinality({i \in ActiveIn(files, result.root) :
                          files[i].duplicate_group # NULL})

\* The statistics have been computed for a scan root with a group of two
\* 1000-byte files and a group of two 500-byte files.
C19_Witness ==
  /\ result.op = "stats"
  /\ result.returned.duplicate_groups = 2
  /\ result.returned.wasted_bytes = 1500
  /\ \A g \in GroupsOf(files, result.root) :
       /\ Cardinality(MembersOf(files, result.root, g)) = 2
       /\ Cardinality(MemberSizes(files, result.root, g)) = 1

\* The walk of scenario A: exactly three files are listed and readable, two
\* of 1000 bytes and one of 500 bytes.
ScenarioAView(view) ==
  /\ Failing(view) = {}
  /\ Cardinality(Readable(view)) = 3
  /\ Cardinality({p \in Readable(view) : view[p].size = 1000}) = 2
  /\ Cardinality({p \in Readable(view) : view[p].size = 500}) = 1

\* The table right after the walk of scenario A on an empty scope.
ScenarioAWalked ==
  /\ result.op = "scan" /\ ~result.raised
  /\ ScenarioAView(result.view)
  /\ Len(files) = 3
  /\ \A i \in Ids(files) :
       files[i].scan_root_directory = result.root /\ files[i].first_seen = result.at

\* C20 - Scenario A: a walk of an empty scope that observes two files of
\* 1000 bytes and one of 500 bytes reports 3 inserted and 0 updated,
\* restored and deleted; the duplicate detection run that follows, reading
\* the same content (one hash) from the two 1000-byte files, hashes these
\* two, returns 1 group, puts exactly these two rows in it and leaves the
\* 500-byte row unhashed and ungrouped; the statistics are then 1 group, 2
\* duplicate files and wasted_bytes = 1000.
C20_ScenarioA ==
  /\ [][(WalkCommitted /\ RowsOf(files, result'.root) = {}
           /\ ScenarioAView(result'.view)) =>
          /\ result'.stats = [inserted |-> 3, updated |-> 0,
                               restored |-> 0, deleted |-> 0]
          /\ result'.scanned = 3
          /\ result'.errors = 0
       ]_vars
  /\ [][(ScenarioAWalked /\ result'.op = "detect" /\ result'.root = result.root) =>
          \A i, j, k \in Ids(files) :
            (/\ i # j
             /\ files[i].file_size_bytes = 1000 /\ files[j].file_size_bytes = 1000
             /\ files[k].file_size_bytes = 500
             /\ result'.failed = {}
             /\ files'[i].file_hash = files'[j].file_hash) =>
              /\ result'.outcome = "done"
              /\ result'.files_hashed = 2
              /\ result'.groups = 1
              /\ files'[i].file_hash # NULL
              /\ files'[i].duplicate_group # NULL
              /\ files'[i].duplicate_group = files'[j].duplicate_group
              /\ files'[k].file_hash = NULL
              /\ files'[k].duplicate_group = NULL
              /\ get_duplicate_group_stats(files', result'.root)
                   = {[duplicate_files |-> 2, duplicate_groups |-> 1,
                       wasted_bytes |-> 1000]}
       ]_vars

\* Scenario A has been played: three rows inserted by the walk at time 1,
\* the two 1000-byte rows hashed alike by the detection run at time 2 and
\* grouped, and the statistics computed.
C20_Witness ==
  /\ result.op = "stats"
  /\ result.returned = [duplicate_files |-> 2, duplicate_groups |-> 1,
                         wasted_bytes |-> 1000]
  /\ Len(files) = 3
  /\ \A i \in Ids(files) :
       files[i].first_seen = 1 /\ files[i].last_seen = 1 /\ files[i].is_deleted = 0
  /\ \E i, j, k \in Ids(files) :
       /\ i # j
       /\ files[i].file_size_bytes = 1000 /\ files[j].file_size_bytes = 1000
       /\ files[k].file_size_bytes = 500
       /\ files[i].file_hash # NULL /\ files[i].file_hash = files[j].file_hash
       /\ files[i].hash_computed_at = <<2>> /\ files[j].hash_computed_at = <<2>>
       /\ files[i].duplicate_group = <<1>> /\ files[j].duplicate_group = <<1>>
       /\ files[k].file_hash = NULL /\ files[k].duplicate_group = NULL

\* The table at the end of scenario A: three Active rows of one scan root,
\* i and j of 1000 bytes with one hash and one group, k of 500 bytes
\* unhashed and ungrouped.
ScenarioADone(rows, i, j, k) ==
  /\ Len(rows) = 3
  /\ {i, j, k} = Ids(rows)
  /\ i # j
  /\ \A x \in Ids(rows) :
       rows[x].is_deleted = 0 /\ rows[x].scan_root_directory = rows[i].scan_root_directory
  /\ rows[i].file_size_bytes = 1000 /\ rows[j].file_size_bytes = 1000
  /\ rows[k].file_size_bytes = 500
  /\ rows[i].file_hash # NULL /\ rows[i].file_hash = rows[j].file_hash
  /\ rows[i].duplicate_group # NULL
  /\ rows[i].duplicate_group = rows[j].duplicate_group
  /\ rows[k].file_hash = NULL /\ rows[k].duplicate_group = NULL

\* The rescan of scenario B: row j's file is gone, the two others are as
\* they were.
ScenarioBView(rows, view, i, j, k) ==
  /\ Failing(view) = {}
  /\ Readable(view) = {rows[i].full_path, rows[k].full_path}
  /\ view[rows[i].full_path].size = 1000
  /\ view[rows[k].full_path].size = 500

\* The table right after the rescan of scenario B.
ScenarioBRescanned(i, j, k) ==
  /\ result.op = "scan" /\ ~result.raised
  /\ result.stats.deleted = 1
  /\ ScenarioBView(files, result.view, i, j, k)
  /\ ScenarioADone([files EXCEPT ![j].is_deleted = 0], i, j, k)
  /\ files[j].is_deleted = 1
  /\ files[j].deleted_at = <<result.at>>

\* C21 - Scenario B: from the table scenario A leaves, a rescan that no
\* longer finds one of the two duplicate files reports exactly 1
\* soft-deleted (0 inserted, 0 restored, 2 updated); the duplicate
\* detection run that follows returns 0 groups, and after it
\* get_duplicate_group_stats reports 0 groups, 0 duplicate files and
\* wasted_bytes = 0.
C21_ScenarioB ==
  /\ [][\A i, j, k \in Ids(files) :
          (/\ ScenarioADone(files, i, j, k)
           /\ WalkCommitted
           /\ ScenarioBView(files, result'.view, i, j, k)) =>
            result'.stats = [inserted |-> 0, updated |-> 2,
                             restored |-> 0, deleted |-> 1]
       ]_vars
  /\ [][\A i, j, k \in Ids(files) :
          (/\ ScenarioBRescanned(i, j, k)
           /\ result'.op = "detect"
           /\ result'.root = result.root) =>
            /\ result'.groups = 0
            /\ get_duplicate_group_stats(files', result'.root)
                 = {[duplicate_files |-> 0, duplicate_groups |-> 0,
                     wasted_bytes |-> 0]}
       ]_vars

\* C22 - Records are never hard-deleted: no step of any operation (walk,
\* duplicate detection, regroup, mark_deleted) removes a row; every row
\* keeps its id, its full_path and its scan root, so the set of
\* (path, scan root) rows only grows and a recorded path stays recorded, as
\* Active or SoftDeleted.
C22_NeverHardDeleted ==
  [][/\ Len(files') >= Len(files)
     /\ \A i \in Ids(files) :
          /\ files'[i].full_path = files[i].full_path
          /\ files'[i].scan_root_directory = files[i].scan_root_directory
          /\ files'[i].first_seen = files[i].first_seen
          /\ files'[i].is_deleted \in {0, 1}
  ]_vars

\* A soft-deleted row is still in the table, under its id, after a later
\* row was inserted and a later operation ran.
C22_Witness ==
  \E i, j \in Ids(files) :
    /\ i < j
    /\ files[i].is_deleted = 1
    /\ files[i].deleted_at # NULL
    /\ files[j].first_seen >= files[i].deleted_at[1]
    /\ result.at > files[j].first_seen

\* The observed paths of a walk that had no row in the walk's scan root.
UnknownObserved == result'.observed \ ExistingPaths(files, result'.root)

\* C23 - Unknown -> Active: in every walk that commits, each observed path
\* that had no row in the walk's scan root gets exactly one new row, in
\* that scan root, with the observed size, is_deleted = 0, deleted_at NULL,
\* first_seen = last_seen = the walk's timestamp, file_hash NULL,
\* hash_computed_at NULL and duplicate_group NULL; the walk's `inserted`
\* count is the number of these paths, and no other row is created.
C23_UnknownToActive ==
  [][WalkCommitted =>
       /\ \A p \in UnknownObserved :
            \E i \in Ids(files') \ Ids(files) :
              /\ files'[i] = [full_path |-> p,
                              scan_root_directory |-> result'.root,
                              file_size_bytes |-> result'.view[p].size,
                              file_hash |-> NULL,
                              duplicate_group |-> NULL,
                              hash_computed_at |-> NULL,
                              is_deleted |-> 0,
                              first_seen |-> result'.at,
                              last_seen |-> result'.at,
                              deleted_at |-> NULL]
              /\ \A j \in Ids(files') : files'[j].full_path = p => j = i
       /\ result'.stats.inserted = Cardinality(UnknownObserved)
       /\ Len(files') - Len(files) = Cardinality(UnknownObserved)
  ]_vars

\* A walk has inserted a row for an unknown path into a scan root that
\* already held a row, which it updated.
C23_Witness ==
  /\ result.op = "scan" /\ ~result.raised
  /\ result.stats.inserted >= 1
  /\ result.stats.updated >= 1
  /\ \E i \in ActiveIn(files, result.root) :
       files[i].first_seen = result.at /\ files[i].last_seen = result.at

\* The rows of the walk's scan root that were Active before the walk and
\* whose path the walk observed.
ActiveObserved ==
  {i \in ActiveIn(files, result'.root) : files[i].full_path \in result'.observed}

\* C24 - Active -> Active: in every walk that commits, a row of the walk's
\* scan root that was Active and whose path is observed keeps its id and
\* stays Active; its size becomes the observed size and last_seen the
\* walk's timestamp, while first_seen, file_hash and every other column
\* keep their values; the walk's `updated` count is the number of these
\* rows.
C24_ActiveToActive ==
  [][WalkCommitted =>
       /\ \A i \in ActiveObserved :
            /\ files'[i] =
                 [files[i] EXCEPT
                    !.file_size_bytes = result'.view[files[i].full_path].size,
                    !.last_seen = result'.at]
            /\ files'[i].is_deleted = 0
            /\ files'[i].deleted_at = NULL
       /\ result'.stats.updated = Cardinality(ActiveObserved)
  ]_vars

\* A walk has updated an Active row that an earlier detection run had
\* hashed: the row still holds the hash and its first_seen.
C24_Witness ==
  /\ result.op = "scan" /\ ~result.raised
  /\ result.stats.updated >= 1
  /\ result.stats.restored = 0
  /\ \E i \in ActiveIn(files, result.root) :
       /\ files[i].file_hash # NULL
       /\ files[i].last_seen = result.at
       /\ files[i].first_seen < result.at
       /\ files[i].hash_computed_at # <<result.at>>

\* The rows of the walk's scan root that the walk did not observe.
Unobserved(rows) ==
  {i \in Ids(rows) : /\ rows[i].scan_root_directory = result'.root
                     /\ rows[i].full_path \notin result'.observed}

\* C25 - SoftDeleted -> SoftDeleted: in every walk that commits, a row of
\* the walk's scan root that was already soft-deleted and is not observed
\* keeps every column, deleted_at included, and `deleted` counts only the
\* unobserved rows that were Active; mark_deleted leaves every row that
\* was already soft-deleted unchanged and returns the number of rows of
\* the given paths that were Active.
C25_SoftDeletedStays ==
  [][/\ WalkCommitted =>
          /\ \A i \in Unobserved(files) :
               files[i].is_deleted = 1 => files'[i] = files[i]
          /\ result'.stats.deleted =
               Cardinality({i \in Unobserved(files) : files[i].is_deleted = 0})
     /\ (result'.op = "mark_deleted" /\ result'.at = clock) =>
          /\ \A i \in Ids(files) :
               files[i].is_deleted = 1 => files'[i] = files[i]
          /\ result'.count =
               Cardinality({i \in Ids(files) :
                              /\ files[i].full_path \in result'.paths
                              /\ files[i].is_deleted = 0})
  ]_vars

\* A walk has passed over a row that was soft-deleted before it and whose
\* file is still missing: the row holds the earlier deleted_at and the
\* walk counted nothing as deleted.
C25_Witness ==
  /\ result.op = "scan" /\ ~result.raised
  /\ result.stats.deleted = 0
  /\ \E i \in DeletedIn(files, result.root) :
       /\ files[i].full_path \notin result.observed
       /\ files[i].deleted_at # <<result.at>>
       /\ files[i].last_seen < result.at - 1

\* The Active rows of a scan root that have the size of row i.
SameSizeActive(rows, scan_root, i) ==
  {j \in ActiveIn(rows, scan_root) : rows[j].file_size_bytes = rows[i].file_size_bytes}

\* The rows the claim expects as candidates: Active, of the scan root, at
\* least the floor in size, in a size population of 2..cap.
ExpectedCandidates(rows, scan_root) ==
  {i \in ActiveIn(rows, scan_root) :
     /\ rows[i].file_size_bytes >= MIN_FILE_SIZE_FOR_HASH
     /\ Cardinality(SameSizeActive(rows, scan_root, i)) >= 2
     /\ Cardinality(SameSizeActive(rows, scan_root, i)) <= MAX_SAME_SIZE_FILES}

\* C26 - Candidate selection: in every reachable store state and for every
\* scan root, get_size_candidates lists, once each, exactly the Active
\* rows of that root whose size is at least the floor and is held by at
\* least 2 and at most cap Active rows of the root; and a detection run
\* writes a hash only to rows that were Active, at least the floor in
\* size, and shared their size with another Active row of the scope.
C26_CandidateSelection ==
  /\ [](\A scan_root \in Roots :
         LET cand == get_size_candidates(files, scan_root) IN
         /\ {cand[k] : k \in DOMAIN cand} = ExpectedCandidates(files, scan_root)
         /\ Len(cand) = Cardinality(ExpectedCandidates(files, scan_root)))
  /\ [][(result'.op = "detect" /\ result'.at = clock) =>
          \A i \in result'.written :
            /\ files[i].is_deleted = 0
            /\ files[i].scan_root_directory = result'.root
            /\ files[i].file_size_bytes >= MIN_FILE_SIZE_FOR_HASH
            /\ \E j \in ActiveIn(files, result'.root) :
                 j # i /\ files[j].file_size_bytes = files[i].file_size_bytes
     ]_vars

\* A detection run has hashed two rows while the scope also held a
\* soft-deleted row of the same size, which is still without a hash.
C26_Witness ==
  /\ result.op = "detect" /\ result.outcome = "done"
  /\ result.files_hashed = 2
  /\ \E i \in DeletedIn(files, result.root) :
       /\ files[i].file_hash = NULL
       /\ \E j \in result.written :
            files[j].file_size_bytes = files[i].file_size_bytes

\* The rows whose file_hash went from NULL to a value in this step.
NewlyHashed == {i \in Ids(files) : files[i].file_hash = NULL /\ files'[i].file_hash # NULL}

\* C27 - Hash writing frame: a detection run that returns creates no row
\* and leaves every column of every row other than file_hash,
\* hash_computed_at and (by its regroup) duplicate_group unchanged; a row
\* that held a hash keeps it and its hash_computed_at; a row whose hash
\* was absent either stays without hash and hash_computed_at unchanged or
\* was a candidate and gets a hash with hash_computed_at = the run's
\* timestamp; files_hashed is the number of rows whose hash went from
\* absent to set.
C27_HashWritingFrame ==
  [][(result'.op = "detect" /\ result'.outcome \in {"done", "empty"}
        /\ result'.at = clock) =>
       LET cand == get_size_candidates(files, result'.root) IN
       /\ Len(files') = Len(files)
       /\ \A i \in Ids(files) :
            /\ files'[i] = [files[i] EXCEPT
                              !.file_hash = files'[i].file_hash,
                              !.hash_computed_at = files'[i].hash_computed_at,
                              !.duplicate_group = files'[i].duplicate_group]
            /\ files[i].file_hash # NULL =>
                 /\ files'[i].file_hash = files[i].file_hash
                 /\ files'[i].hash_computed_at = files[i].hash_computed_at
            /\ files[i].file_hash = NULL =>
                 \/ /\ files'[i].file_hash = NULL
                    /\ files'[i].hash_computed_at = files[i].hash_computed_at
                 \/ /\ i \in {cand[k] : k \in DOMAIN cand}
                    /\ files'[i].file_hash \in HashResults \ {NULL}
                    /\ files'[i].hash_computed_at = <<result'.at>>
       /\ result'.files_hashed = Cardinality(NewlyHashed)
  ]_vars

\* A detection run has hashed a candidate whose hash was absent while
\* another candidate of the same scan root kept the hash and the
\* hash_computed_at of an earlier run.
C27_Witness ==
  /\ result.op = "detect" /\ result.outcome = "done"
  /\ result.files_hashed >= 1
  /\ \E i, j \in ActiveIn(files, result.root) :
       /\ i \in result.written
       /\ files[i].hash_computed_at = <<result.at>>
       /\ j \notin result.written
       /\ files[j].file_size_bytes = files[i].file_size_bytes
       /\ files[j].file_hash # NULL
       /\ files[j].hash_computed_at # <<result.at>>

\* C28 - Group members share their size: in every reachable store state,
\* any two Active rows of one scan root that hold the same duplicate_group
\* have the same file_size_bytes.
C28_GroupSameSize ==
  \A scan_root \in Roots :
    \A i, j \in ActiveIn(files, scan_root) :
      (files[i].duplicate_group # NULL
         /\ files[i].duplicate_group = files[j].duplicate_group)
        => files[i].file_size_bytes = files[j].file_size_bytes

\* C29 - Soft-deleted only when absent: in every walk that commits, a row
\* of the walk's scan root that was Active and is soft-deleted by the walk
\* belongs to a file that is absent from the walked subtree; an Active row
\* whose file exists but fails metadata extraction stays Active.
C29_DeletedOnlyIfAbsent ==
  [][WalkCommitted =>
       \A i \in ActiveIn(files, result'.root) :
         /\ files'[i].is_deleted = 1 =>
              result'.view[files[i].full_path] = Absent
         /\ files[i].full_path \in Failing(result'.view) =>
              files'[i].is_deleted = 0
  ]_vars

\* The observed paths of a walk whose row in the walk's scan root had the
\* given is_deleted before the walk.
ObservedWith(flag) ==
  {p \in result'.observed :
     \E i \in Ids(files) : /\ files[i].scan_root_directory = result'.root
                           /\ files[i].full_path = p
                           /\ files[i].is_deleted = flag}

\* C30 - Count accounting: in every walk that commits, scanned is the
\* number of observed paths and equals inserted + updated + restored;
\* inserted, updated and restored are the numbers of observed paths that
\* had no row, an Active row and a soft-deleted row in the scan root
\* before the walk; these three sets are disjoint and cover the observed
\* paths; deleted is the number of rows of the scan root that were Active
\* and whose path was not observed.
C30_CountAccounting ==
  [][WalkCommitted =>
       /\ result'.scanned = Cardinality(result'.observed)
       /\ result'.stats.inserted + result'.stats.updated + result'.stats.restored
            = result'.scanned
       /\ result'.stats.inserted = Cardinality(UnknownObserved)
       /\ result'.stats.updated = Cardinality(ObservedWith(0))
       /\ result'.stats.restored = Cardinality(ObservedWith(1))
       /\ result'.stats.deleted =
            Cardinality({i \in ActiveIn(files, result'.root) :
                           files[i].full_path \notin result'.observed})
       /\ UnknownObserved \cup ObservedWith(0) \cup ObservedWith(1) = result'.observed
       /\ UnknownObserved \cap ObservedWith(0) = {}
       /\ UnknownObserved \cap ObservedWith(1) = {}
       /\ ObservedWith(0) \cap ObservedWith(1) = {}
  ]_vars

\* A walk of a scan root has inserted one path, updated another, counted
\* an extraction failure and soft-deleted a row.
C30_Witness ==
  /\ result.op = "scan" /\ ~result.raised
  /\ result.stats.inserted = 1
  /\ result.stats.updated = 1
  /\ result.stats.deleted = 1
  /\ result.errors = 1
  /\ result.scanned = 2
====
